---------------------------- MODULE Spec2Model ----------------------------
(***************************************************************************)
(* Circuit simulator: the MNA engine (src/engine.js) and the UI controller *)
(* that owns the wire list and rebuilds the node topology                  *)
(* (src/unnamed/part_000).                                                 *)
(*                                                                         *)
(* Objects live in two heaps: comp (Component objects, addressed by the    *)
(* number in their id "comp_<n>") and node (Node objects).  A reference is *)
(* the address of the object; Null is the JavaScript null.                 *)
(*                                                                         *)
(* JavaScript numbers are modelled as decimal floating-point values with a *)
(* four-digit significand, rounded to nearest after every operation, with  *)
(* infinities and NaN: [k, m, e] stands for m * 10^e.                      *)
(***************************************************************************)
EXTENDS Integers, Sequences, FiniteSets

VARIABLES
    components,         \* engine.components: list of component references
    nodes,              \* engine.nodes: list of node references
    compCounter,        \* engine.compCounter
    comp,               \* heap of Component objects
    node,               \* heap of Node objects
    visualWires,        \* list of {startComp, startTerm, endComp, endTerm}
    selectedComponent,  \* reference or Null
    panel,              \* component the properties panel's handlers are bound to
    isDrawingWire,
    wireStartTerminal,  \* {component, index} or NoTerminal
    solveLog,           \* history: one record per pass of the last solve()
    lastOp              \* history: which entry point produced this state

vars == <<components, nodes, compCounter, comp, node, visualWires,
          selectedComponent, panel, isDrawingWire, wireStartTerminal,
          solveLog, lastOp>>

-----------------------------------------------------------------------------
(* Numbers                                                                 *)

Pow10(n) == 10 ^ n

AbsInt(a) == IF a < 0 THEN -a ELSE a

NumDigits(a) ==
    IF a < 10000
    THEN (IF a < 100 THEN (IF a < 10 THEN 1 ELSE 2)
          ELSE (IF a < 1000 THEN 3 ELSE 4))
    ELSE IF a < 1000000 THEN (IF a < 100000 THEN 5 ELSE 6)
    ELSE IF a < 100000000 THEN (IF a < 10000000 THEN 7 ELSE 8)
    ELSE IF a < 1000000000 THEN 9 ELSE 10

Zero == [k |-> "fin", m |-> 0, e |-> 0]
NaN == [k |-> "nan", m |-> 0, e |-> 0]
Inf(s) == [k |-> "inf", m |-> s, e |-> 0]
Undefined == [k |-> "undef", m |-> 0, e |-> 0]

\* m * 10^e, m of d digits, rounded to four significant digits (half away
\* from zero).
Round(m, e, d) ==
    IF d = 4 THEN [k |-> "fin", m |-> m, e |-> e]
    ELSE IF d < 4
         THEN [k |-> "fin", m |-> m * Pow10(4 - d), e |-> e - (4 - d)]
    ELSE LET p == Pow10(d - 4)
             q == (AbsInt(m) + (p \div 2)) \div p
         IN IF q = 10000
            THEN [k |-> "fin", m |-> IF m < 0 THEN -1000 ELSE 1000,
                  e |-> e + d - 3]
            ELSE [k |-> "fin", m |-> IF m < 0 THEN -q ELSE q, e |-> e + d - 4]

Norm(m, e) == IF m = 0 THEN Zero ELSE Round(m, e, NumDigits(AbsInt(m)))

Num(m, e) == Norm(m, e)

IsNaN(x) == x.k = "nan" \/ x.k = "undef"

Neg(x) == [x EXCEPT !.m = -x.m]

Abs(x) == [x EXCEPT !.m = AbsInt(x.m)]

AddFin(x, y) ==
    IF x.m = 0 THEN y
    ELSE IF y.m = 0 THEN x
    ELSE IF x.e >= y.e
         THEN IF x.e - y.e > 5 THEN x
              ELSE Norm(x.m * Pow10(x.e - y.e) + y.m, y.e)
         ELSE IF y.e - x.e > 5 THEN y
              ELSE Norm(y.m * Pow10(y.e - x.e) + x.m, x.e)

Add(x, y) ==
    IF IsNaN(x) \/ IsNaN(y) THEN NaN
    ELSE IF x.k = "inf"
         THEN IF y.k = "inf" /\ y.m # x.m THEN NaN ELSE x
    ELSE IF y.k = "inf" THEN y
    ELSE AddFin(x, y)

Sub(x, y) == Add(x, Neg(y))

Sgn(x) == IF x.m < 0 THEN -1 ELSE IF x.m > 0 THEN 1 ELSE 0

Mul(x, y) ==
    IF IsNaN(x) \/ IsNaN(y) THEN NaN
    ELSE IF x.k = "inf" \/ y.k = "inf"
         THEN IF Sgn(x) = 0 \/ Sgn(y) = 0 THEN NaN ELSE Inf(Sgn(x) * Sgn(y))
    ELSE Norm(x.m * y.m, x.e + y.e)

Div(x, y) ==
    IF IsNaN(x) \/ IsNaN(y) THEN NaN
    ELSE IF x.k = "inf"
         THEN IF y.k = "inf" THEN NaN
              ELSE Inf(x.m * (IF y.m < 0 THEN -1 ELSE 1))
    ELSE IF y.k = "inf" THEN Zero
    ELSE IF y.m = 0
         THEN IF x.m = 0 THEN NaN ELSE Inf(Sgn(x))
    ELSE LET q == (AbsInt(x.m) * 100000) \div AbsInt(y.m)
         IN Norm(Sgn(x) * Sgn(y) * q, x.e - y.e - 5)

\* x < y and x > y as JavaScript evaluates them: false when either is NaN.
Lt(x, y) ==
    /\ ~IsNaN(x)
    /\ ~IsNaN(y)
    /\ IF x.k = "inf" THEN x.m < 0 /\ ~(y.k = "inf" /\ y.m < 0)
       ELSE IF y.k = "inf" THEN y.m > 0
       ELSE Sgn(AddFin(x, Neg(y))) < 0

Gt(x, y) == Lt(y, x)

-----------------------------------------------------------------------------
(* Math helpers (engine.js): indices are 1-based here, 0-based in the      *)
(* code; "no index" is 0 here and -1 in the code.                          *)

PivotTol == Num(1, -10)

\* new Matrix(rows, cols): all zeros.
RECURSIVE ZeroVec(_)
ZeroVec(n) == IF n = 0 THEN <<>> ELSE Append(ZeroVec(n - 1), Zero)

RECURSIVE ZeroRows(_, _)
ZeroRows(r, c) == IF r = 0 THEN <<>> ELSE Append(ZeroRows(r - 1, c), ZeroVec(c))

Matrix(rows, cols) == ZeroRows(rows, cols)

\* Matrix.set: writes inside the bounds are stored, others are dropped.
MatSet(A, r, c, val) ==
    IF r >= 1 /\ r <= Len(A) /\ c >= 1 /\ c <= Len(A)
    THEN [A EXCEPT ![r][c] = val]
    ELSE A

\* The pivot search: the first row at or below i whose entry in column i is
\* strictly larger in magnitude than every earlier candidate.
RECURSIVE PivotRow(_, _, _, _)
PivotRow(M, i, k, maxRow) ==
    IF k > Len(M) THEN maxRow
    ELSE PivotRow(M, i, k + 1,
                  IF Gt(Abs(M[k][i]), Abs(M[maxRow][i])) THEN k ELSE maxRow)

SwapRows(s, i, j) == [s EXCEPT ![i] = s[j], ![j] = s[i]]

\* row[j] -= factor * pivotRow[j] for j = from .. n
RECURSIVE RowSub(_, _, _, _)
RowSub(row, pivotRow, factor, j) ==
    IF j > Len(row) THEN row
    ELSE RowSub([row EXCEPT ![j] = Sub(row[j], Mul(factor, pivotRow[j]))],
                pivotRow, factor, j + 1)

\* Row k is reduced by factor times pivot row i.
ReduceRow(M, R, i, k, factor) ==
    [M |-> [M EXCEPT ![k] = RowSub(M[k], M[i], factor, i)],
     R |-> [R EXCEPT ![k] = Sub(R[k], Mul(factor, R[i]))],
     i |-> i]

\* The rows k..n below pivot row i are reduced.
RECURSIVE Eliminate(_, _)
Eliminate(t, k) ==
    IF k > Len(t.M) THEN t
    ELSE Eliminate(
            ReduceRow(t.M, t.R, t.i, k, Div(t.M[k][t.i], t.M[t.i][t.i])),
            k + 1)

\* Forward elimination from column i, on t = [M, R, i].
RECURSIVE Forward(_)
Swapped(t, maxRow) ==
    [M |-> SwapRows(t.M, t.i, maxRow), R |-> SwapRows(t.R, t.i, maxRow),
     i |-> t.i]

Pivoted(t) ==
    IF Lt(Abs(t.M[t.i][t.i]), PivotTol) THEN t ELSE Eliminate(t, t.i + 1)

Forward(t) ==
    IF t.i > Len(t.M) THEN t
    ELSE Forward([Pivoted(Swapped(t, PivotRow(t.M, t.i, t.i + 1, t.i)))
                     EXCEPT !.i = t.i + 1])

RECURSIVE RowDot(_, _, _, _)
RowDot(row, x, j, sum) ==
    IF j > Len(row) THEN sum
    ELSE RowDot(row, x, j + 1, Add(sum, Mul(row[j], x[j])))

RECURSIVE Backward(_, _, _)
\* The test of the pivot is missing from the substitution.
BackwardUnguarded(t, x, i) ==
    IF i < 1 THEN x
    ELSE Backward(t,
                  [x EXCEPT ![i] =
                      Div(Sub(t.R[i], RowDot(t.M[i], x, i + 1, Zero)),
                          t.M[i][i])],
                  i - 1)

Backward(t, x, i) ==
    IF i < 1 THEN x
    ELSE IF Lt(Abs(t.M[i][i]), PivotTol) THEN Backward(t, x, i - 1)
    ELSE Backward(t,
                  [x EXCEPT ![i] =
                      Div(Sub(t.R[i], RowDot(t.M[i], x, i + 1, Zero)),
                          t.M[i][i])],
                  i - 1)

\* Gaussian elimination with partial pivoting.
solveLinearSystem(A, B) ==
    Backward(Forward([M |-> A, R |-> B, i |-> 1]), ZeroVec(Len(A)), Len(A))

-----------------------------------------------------------------------------
(* Circuit elements (engine.js)                                            *)

Null == 0

\* new Node(id): parent is set by rebuildCircuit right after construction.
NewNode(self) == [parent |-> self, voltage |-> Zero, isGND |-> FALSE]

\* spdtState and current are not set by the constructor: they read as
\* undefined until a handler or solve() writes them.
SpdtUndefined == -1

NewComponent(type) ==
    [type |-> type, nodes |-> <<Null, Null>>, resistance |-> Num(10, 0),
     voltage |-> Zero, isOpen |-> FALSE, spdtState |-> SpdtUndefined,
     current |-> Undefined]

\* A cell of the component heap that holds no reachable object.
NoComponent == [NewComponent("none") EXCEPT !.nodes = <<>>]

\* No kind gets values of its own.
addComponentPlain(type) == NewComponent(type)

addComponentDefaults(type) ==
    LET c == NewComponent(type)
    IN CASE type = "battery" ->
                [c EXCEPT !.voltage = Num(9, 0), !.resistance = Num(1, -1)]
         [] type = "bulb" -> [c EXCEPT !.resistance = Num(50, 0)]
         [] type = "switch" ->
                [c EXCEPT !.resistance = Num(1, -3), !.isOpen = TRUE]
         [] type = "resistor" -> [c EXCEPT !.resistance = Num(100, 0)]
         [] type = "voltmeter" -> [c EXCEPT !.resistance = Num(1, 9)]
         [] type = "ammeter" -> [c EXCEPT !.resistance = Num(1, -3)]
         [] type = "joint" -> [c EXCEPT !.resistance = Num(1, -3)]
         [] type = "led" -> [c EXCEPT !.resistance = Num(10, 0)]
         [] type = "pushbutton" ->
                [c EXCEPT !.resistance = Num(1, 9), !.isOpen = TRUE]
         [] type = "buzzer" -> [c EXCEPT !.resistance = Num(100, 0)]
         [] type = "ldr" -> [c EXCEPT !.resistance = Num(250, 0)]
         [] type = "potentiometer" -> [c EXCEPT !.resistance = Num(250, 0)]
         [] OTHER -> c

\* The engine state the operations below transform: the fields of the
\* CircuitEngine object, the two object heaps and the pass log of solve().
\*   E.components, E.nodes, E.compCounter, E.comp, E.node, E.log

\* engine.addComponent(type, x, y): the new object's address is
\* compCounter + 1 (the code's id is "comp_" + compCounter).
addComponent(E, type) ==
    LET c == E.compCounter + 1
    IN [E EXCEPT !.compCounter = c,
                 !.comp = Append(E.comp, addComponentDefaults(type)),
                 !.components = Append(E.components, c)]

-----------------------------------------------------------------------------
(* CircuitEngine.solve (engine.js)                                         *)

maxIterations == 10
Leakage == Num(1, -12)
ClosedR == Num(1, -3)
OpenR == Num(1, 9)
LedOnR == Num(90, 0)
LedOffR == Num(1, 7)
LedThreshold == Num(5, -1)
MinR == Num(1, -6)
Tolerance == Num(1, -3)

RECURSIVE IndexOf(_, _, _)
IndexOf(seq, x, i) ==
    IF i > Len(seq) THEN 0 ELSE IF seq[i] = x THEN i ELSE IndexOf(seq, x, i + 1)

activeNodesOf(E) == SelectSeq(E.nodes, LAMBDA n : ~E.node[n].isGND)

BatteryCount(E) ==
    Len(SelectSeq(E.components, LAMBDA c : E.comp[c].type = "battery"))

\* size = N + M of one pass.
UnknownCount(E) == Len(activeNodesOf(E)) + BatteryCount(E)

\* getIdx: ids are unique within engine.nodes (rebuildCircuit names them by
\* position), so the lookup by id is the lookup of the object.
getIdx(E, active, n) ==
    IF n = Null THEN 0
    ELSE IF E.node[n].isGND THEN 0
    ELSE IndexOf(active, n, 1)

\* comp.nodes[i] of the code (i is 0-based); undefined reads as Null.
Terminal(E, c, i) ==
    IF i + 1 \in DOMAIN E.comp[c].nodes THEN E.comp[c].nodes[i + 1] ELSE Null

\* n ? n.voltage : 0
VoltageOf(E, n) == IF n = Null THEN Zero ELSE E.node[n].voltage

One == Num(1, 0)

RECURSIVE StampLeakage(_, _, _)
StampLeakage(A, i, N) ==
    IF i > N THEN A ELSE StampLeakage(MatSet(A, i, i, Leakage), i + 1, N)

\* A.set(i, j, A.get(i, j) + g) and A.set(i, j, A.get(i, j) - g)
AddAt(A, i, j, g) == MatSet(A, i, j, Add(A[i][j], g))

SubAt(A, i, j, g) == MatSet(A, i, j, Sub(A[i][j], g))

StampDiag(A, i, g) == IF i # 0 THEN AddAt(A, i, i, g) ELSE A

StampOff(A, i, j, g) ==
    IF i # 0 /\ j # 0 THEN SubAt(SubAt(A, i, j, g), j, i, g) ELSE A

\* The two-terminal conductance stamp.
StampG(A, i, j, g) == StampOff(StampDiag(StampDiag(A, i, g), j, g), i, j, g)

\* A.set(row, i, v); A.set(i, row, v) when the node has an index.
StampSource(A, row, i, v) ==
    IF i # 0 THEN MatSet(MatSet(A, row, i, v), i, row, v) ELSE A

StampBattery(E, active, c, st) ==
    LET row == Len(active) + st.vSourceIndex + 1
    IN [A |-> StampSource(
                 StampSource(st.A, row, getIdx(E, active, Terminal(E, c, 0)),
                             One),
                 row, getIdx(E, active, Terminal(E, c, 1)), Neg(One)),
        Z |-> [st.Z EXCEPT ![row] = E.comp[c].voltage],
        vSourceIndex |-> st.vSourceIndex + 1]

\* R of the path to output t (1 or 2) of an spdt.
SpdtPathR(state, t) ==
    IF (t = 1 /\ state = 0) \/ (t = 2 /\ state = 1) THEN ClosedR ELSE OpenR

StampSpdtPath(E, active, c, A, t) ==
    StampG(A, getIdx(E, active, Terminal(E, c, 0)),
           getIdx(E, active, Terminal(E, c, t)),
           Div(One, SpdtPathR(E.comp[c].spdtState, t)))

StampSpdt(E, active, c, st) ==
    [st EXCEPT !.A =
        StampSpdtPath(E, active, c, StampSpdtPath(E, active, c, st.A, 1), 2)]

\* The stored resistance, for a switch and a pushbutton too.
SwitchResistanceStored(k) == k.resistance

\* The resistance a pass stamps for a two-terminal resistive component.
SwitchResistance(k) ==
    IF k.type = "switch" \/ k.type = "pushbutton"
    THEN (IF k.isOpen THEN OpenR ELSE ClosedR)
    ELSE k.resistance

TerminalDrop(E, c) ==
    Sub(VoltageOf(E, Terminal(E, c, 0)), VoltageOf(E, Terminal(E, c, 1)))

\* The LED model reads the voltages in the first pass too.
LedResistanceAlways(iter, drop, R) ==
    IF Gt(drop, LedThreshold) THEN LedOnR ELSE LedOffR

\* The LED never conducts.
LedResistanceOff(iter, drop, R) == IF iter > 0 THEN LedOffR ELSE R

LedResistance(iter, drop, R) ==
    IF iter > 0 THEN (IF Gt(drop, LedThreshold) THEN LedOnR ELSE LedOffR) ELSE R

\* if (R < 1e-6) R = 1e-6
ClampR(R) == IF Lt(R, MinR) THEN MinR ELSE R

StampedResistance(E, c, iter) ==
    ClampR(IF E.comp[c].type = "led"
           THEN LedResistance(iter, TerminalDrop(E, c),
                              SwitchResistance(E.comp[c]))
           ELSE SwitchResistance(E.comp[c]))

StampResistive(E, active, c, iter, st) ==
    IF Terminal(E, c, 0) # Null \/ Terminal(E, c, 1) # Null
    THEN [st EXCEPT !.A =
             StampG(st.A, getIdx(E, active, Terminal(E, c, 0)),
                    getIdx(E, active, Terminal(E, c, 1)),
                    Div(One, StampedResistance(E, c, iter)))]
    ELSE st

StampComponent(E, active, iter, c, st) ==
    IF E.comp[c].type = "battery" THEN StampBattery(E, active, c, st)
    ELSE IF E.comp[c].type = "spdt" THEN StampSpdt(E, active, c, st)
    ELSE StampResistive(E, active, c, iter, st)

RECURSIVE FillMatrix(_, _, _, _, _)
FillMatrix(E, active, iter, i, st) ==
    IF i > Len(E.components) THEN st
    ELSE FillMatrix(E, active, iter, i + 1,
                    StampComponent(E, active, iter, E.components[i], st))

\* Update Voltages: u = [node, maxChange] after the first i - 1 active nodes.
RECURSIVE WriteActive(_, _, _, _)
WriteNode(u, n, v) ==
    [node |-> [u.node EXCEPT ![n].voltage = v],
     maxChange |-> IF Gt(Abs(Sub(u.node[n].voltage, v)), u.maxChange)
                   THEN Abs(Sub(u.node[n].voltage, v))
                   ELSE u.maxChange]

WriteActive(u, active, result, i) ==
    IF i > Len(active) THEN u
    ELSE WriteActive(WriteNode(u, active[i], result[i]), active, result, i + 1)

RECURSIVE ZeroGround(_, _, _)
ZeroGround(nd, ns, i) ==
    IF i > Len(ns) THEN nd
    ELSE ZeroGround(IF nd[ns[i]].isGND THEN [nd EXCEPT ![ns[i]].voltage = Zero]
                    ELSE nd, ns, i + 1)

GroundToZero(u, ns) == [u EXCEPT !.node = ZeroGround(u.node, ns, 1)]

\* The results are written to the nodes of engine.nodes by position, the
\* ground included.
UpdateVoltagesAll(E, active, result) ==
    WriteActive([node |-> E.node, maxChange |-> Zero], E.nodes, result, 1)

UpdateVoltages(E, active, result) ==
    GroundToZero(
        WriteActive([node |-> E.node, maxChange |-> Zero], active, result, 1),
        E.nodes)

\* Number of batteries before position i of the component list.
\* Every battery reads the unknown of the first battery.
BatteriesBeforeNone(E, i) == 0

RECURSIVE BatteriesBefore(_, _)
BatteriesBefore(E, i) ==
    IF i <= 1 THEN 0
    ELSE BatteriesBefore(E, i - 1)
         + (IF E.comp[E.components[i - 1]].type = "battery" THEN 1 ELSE 0)

\* The resistance the update step divides by.
CurrentResistance(E, c) ==
    IF E.comp[c].type = "led"
    THEN (IF Gt(TerminalDrop(E, c), LedThreshold) THEN LedOnR ELSE LedOffR)
    ELSE SwitchResistance(E.comp[c])

SpdtDrop(E, c, idx) ==
    Sub(VoltageOf(E, Terminal(E, c, 0)), VoltageOf(E, Terminal(E, c, idx)))

ComponentCurrent(E, i, result, N) ==
    IF E.comp[E.components[i]].type = "battery"
    THEN result[N + BatteriesBefore(E, i) + 1]
    ELSE IF E.comp[E.components[i]].type = "spdt"
         THEN Div(SpdtDrop(E, E.components[i],
                           IF E.comp[E.components[i]].spdtState = 0
                           THEN 1 ELSE 2),
                  ClosedR)
    ELSE Div(TerminalDrop(E, E.components[i]),
             CurrentResistance(E, E.components[i]))

RECURSIVE UpdateCurrents(_, _, _, _)
\* The resistance the update step divides by is stored in the component.
UpdateCurrentsStoringR(E, result, N, i) ==
    IF i > Len(E.components) THEN E
    ELSE UpdateCurrents(
            [E EXCEPT !.comp[E.components[i]].current =
                          ComponentCurrent(E, i, result, N),
                      !.comp[E.components[i]].resistance =
                          CurrentResistance(E, E.components[i])],
            result, N, i + 1)

UpdateCurrents(E, result, N, i) ==
    IF i > Len(E.components) THEN E
    ELSE UpdateCurrents(
            [E EXCEPT !.comp[E.components[i]].current =
                          ComponentCurrent(E, i, result, N)],
            result, N, i + 1)

RECURSIVE VoltagesFrom(_, _, _)
VoltagesFrom(E, ns, i) ==
    IF i > Len(ns) THEN <<>>
    ELSE <<E.node[ns[i]].voltage>> \o VoltagesFrom(E, ns, i + 1)

Voltages(E, ns) == VoltagesFrom(E, ns, 1)

\* maxChange < 1e-3 alone.
ConvergedAtOnce(iter, maxChange) == Lt(maxChange, Tolerance)

\* iter > 0 && maxChange < 1e-3
Converged(iter, maxChange) == iter > 0 /\ Lt(maxChange, Tolerance)

\* The system of one pass: leakage, then the stamps of every component.
Assemble(E, active, iter, size) ==
    FillMatrix(E, active, iter, 1,
               [A |-> StampLeakage(Matrix(size, size), 1, Len(active)),
                Z |-> ZeroVec(size), vSourceIndex |-> 0])

SolveSystem(st) == solveLinearSystem(st.A, st.Z)

\* What a pass stamps for the component at position i of the list: nothing
\* for a battery, the resistances of the two paths of an spdt, R otherwise.
Stamped(E, i, iter) ==
    IF E.comp[E.components[i]].type = "battery" THEN <<>>
    ELSE IF E.comp[E.components[i]].type = "spdt"
         THEN <<SpdtPathR(E.comp[E.components[i]].spdtState, 1),
                SpdtPathR(E.comp[E.components[i]].spdtState, 2)>>
    ELSE <<StampedResistance(E, E.components[i], iter)>>

\* The pass is entered in the log (history): its size, the system A x = Z
\* it assembled from E0, the resistances it stamped, the solution x, and the
\* voltages v and currents I it wrote.
Logged(E0, iter, st, result, E, active, maxChange) ==
    [E |-> [E EXCEPT !.log =
                Append(E.log,
                       [size |-> Len(result),
                        v |-> Voltages(E, active),
                        A |-> st.A,
                        Z |-> st.Z,
                        R |-> [i \in DOMAIN E0.components |->
                                  Stamped(E0, i, iter)],
                        x |-> result,
                        I |-> [i \in DOMAIN E.components |->
                                  E.comp[E.components[i]].current]])],
     maxChange |-> maxChange]

Updated(E, iter, active, st, result, u) ==
    Logged(E, iter, st, result,
           UpdateCurrents([E EXCEPT !.node = u.node], result, Len(active), 1),
           active, u.maxChange)

Update(E, iter, active, st, result) ==
    Updated(E, iter, active, st, result, UpdateVoltages(E, active, result))

Solved(E, iter, active, st) == Update(E, iter, active, st, SolveSystem(st))

\* One pass of the loop body after the size test: assemble, solve, update.
\* Its value is [E, maxChange].
Pass(E, iter) ==
    Solved(E, iter, activeNodesOf(E),
           Assemble(E, activeNodesOf(E), iter, UnknownCount(E)))

\* The size test is missing.
NeverNothing(E) == FALSE

\* if (size === 0) return;
NothingToSolve(E) == UnknownCount(E) = 0

RECURSIVE SolveLoop(_, _)
Continue(p, iter) ==
    IF Converged(iter, p.maxChange) THEN p.E ELSE SolveLoop(p.E, iter + 1)

SolveLoop(E, iter) ==
    IF iter >= maxIterations THEN E
    ELSE IF NothingToSolve(E) THEN E
    ELSE Continue(Pass(E, iter), iter)

solve(E) == SolveLoop([E EXCEPT !.log = <<>>], 0)

-----------------------------------------------------------------------------
(* rebuildCircuit (part_000)                                               *)

\* 1. Fresh nodes for every terminal of every component in the list.
RECURSIVE PushNodes(_, _, _, _)
PushNodes(E, c, i, termCount) ==
    IF i >= termCount THEN E
    ELSE LET n == Len(E.node) + 1
         IN PushNodes([E EXCEPT !.node = Append(E.node, NewNode(n)),
                                !.comp[c].nodes = Append(E.comp[c].nodes, n)],
                      c, i + 1, termCount)

RECURSIVE CreateNodesFrom(_, _)
CreateNodesFrom(E, i) ==
    IF i > Len(E.components) THEN E
    ELSE LET c == E.components[i]
             termCount == IF E.comp[c].type = "spdt" THEN 3 ELSE 2
         IN CreateNodesFrom(
                PushNodes([E EXCEPT !.comp[c].nodes = <<>>], c, 0, termCount),
                i + 1)

CreateNodes(E) == CreateNodesFrom(E, 1)

\* 2. Union-find helpers; find compresses the path it walks.
RECURSIVE find(_, _)
find(nd, n) ==
    IF nd[n].parent # n
    THEN LET r == find(nd, nd[n].parent)
         IN [node |-> [r.node EXCEPT ![n].parent = r.root], root |-> r.root]
    ELSE [node |-> nd, root |-> n]

union(nd, n1, n2) ==
    LET f1 == find(nd, n1)
        f2 == find(f1.node, n2)
    IN IF f1.root # f2.root
       THEN [f2.node EXCEPT ![f1.root].parent = f2.root]
       ELSE f2.node

\* 3. The "safe check" of a wire: both component references and both
\* terminal slots are truthy.
WireOk(E, w) ==
    /\ w.startComp # Null
    /\ Terminal(E, w.startComp, w.startTerm) # Null
    /\ w.endComp # Null
    /\ Terminal(E, w.endComp, w.endTerm) # Null

RECURSIVE ApplyWiresFrom(_, _, _)
ApplyWiresFrom(E, wires, i) ==
    IF i > Len(wires) THEN E
    ELSE LET w == wires[i]
         IN ApplyWiresFrom(
                IF WireOk(E, w)
                THEN [E EXCEPT !.node =
                         union(E.node, Terminal(E, w.startComp, w.startTerm),
                               Terminal(E, w.endComp, w.endTerm))]
                ELSE E,
                wires, i + 1)

ApplyWires(E, wires) == ApplyWiresFrom(E, wires, 1)

\* 4. Every terminal slot is replaced by the root of its node.
RECURSIVE RootSlots(_, _, _)
RootSlots(E, c, i) ==
    IF i > Len(E.comp[c].nodes) THEN E
    ELSE LET f == find(E.node, E.comp[c].nodes[i])
         IN RootSlots([E EXCEPT !.node = f.node, !.comp[c].nodes[i] = f.root],
                      c, i + 1)

RECURSIVE PointToRootsFrom(_, _)
PointToRootsFrom(E, i) ==
    IF i > Len(E.components) THEN E
    ELSE PointToRootsFrom(RootSlots(E, E.components[i], 1), i + 1)

\* The slots keep the nodes created for them.
PointToRootsSkipped(E) == E

PointToRoots(E) == PointToRootsFrom(E, 1)

\* 5. engine.nodes: the distinct nodes the components reference, in the
\* order a Set keeps them (first insertion).
RECURSIVE AddAll(_, _, _)
AddAll(seq, xs, i) ==
    IF i > Len(xs) THEN seq
    ELSE AddAll(IF IndexOf(seq, xs[i], 1) = 0 THEN Append(seq, xs[i]) ELSE seq,
                xs, i + 1)

RECURSIVE UniqueNodesFrom(_, _, _)
UniqueNodesFrom(E, i, seq) ==
    IF i > Len(E.components) THEN seq
    ELSE UniqueNodesFrom(E, i + 1, AddAll(seq, E.comp[E.components[i]].nodes, 1))

\* engine.nodes is left as the previous rebuild wrote it.
BuildNodeListStale(E) == E

\* The new nodes are added to the ones engine.nodes already holds.
BuildNodeListKept(E) == [E EXCEPT !.nodes = UniqueNodesFrom(E, 1, E.nodes)]

BuildNodeList(E) == [E EXCEPT !.nodes = UniqueNodesFrom(E, 1, <<>>)]

\* 6. Grounding: terminal 1 of the first battery of the list.
FirstBattery(E) ==
    LET bats == SelectSeq(E.components, LAMBDA c : E.comp[c].type = "battery")
    IN IF bats = <<>> THEN Null ELSE bats[1]

\* Terminal 0 of the first battery is grounded.
GroundingPositive(E) ==
    LET bat == FirstBattery(E)
    IN IF bat # Null /\ Terminal(E, bat, 0) # Null
       THEN [E EXCEPT !.node[Terminal(E, bat, 0)].isGND = TRUE]
       ELSE E

Grounding(E) ==
    LET bat == FirstBattery(E)
    IN IF bat # Null /\ Terminal(E, bat, 1) # Null
       THEN [E EXCEPT !.node[Terminal(E, bat, 1)].isGND = TRUE]
       ELSE E

rebuildCircuit(E, wires) ==
    solve(Grounding(BuildNodeList(PointToRoots(ApplyWires(CreateNodes(E), wires)))))

-----------------------------------------------------------------------------
(* Unreachable objects.  A Component no list, wire or UI variable refers   *)
(* to, and a Node no reachable component slot leads to, can never be read  *)
(* again.  After every handler the heaps are collected: unreachable        *)
(* components become NoComponent, reachable nodes are renumbered in the    *)
(* order the component heap reaches them, and parent chains are shortened  *)
(* to the root (what find returns for every node is unchanged).            *)

RECURSIVE RootOf(_, _)
RootOf(nd, n) == IF nd[n].parent = n THEN n ELSE RootOf(nd, nd[n].parent)

WireComps(wires) ==
    {wires[i].startComp : i \in DOMAIN wires}
        \cup {wires[i].endComp : i \in DOMAIN wires}

SeqSet(seq) == {seq[i] : i \in DOMAIN seq}

RECURSIVE WithRoots(_, _, _)
WithRoots(nd, xs, i) ==
    IF i > Len(xs) THEN <<>>
    ELSE (IF xs[i] = Null THEN <<>> ELSE <<xs[i], RootOf(nd, xs[i])>>)
         \o WithRoots(nd, xs, i + 1)

RECURSIVE KeptNodes(_, _, _)
KeptNodes(E, c, seq) ==
    IF c > Len(E.comp) THEN AddAll(seq, WithRoots(E.node, E.nodes, 1), 1)
    ELSE KeptNodes(E, c + 1,
                   AddAll(seq, WithRoots(E.node, E.comp[c].nodes, 1), 1))

RECURSIVE Renumbered(_, _, _)
Renumbered(nd, kept, i) ==
    IF i > Len(kept) THEN <<>>
    ELSE <<[nd[kept[i]] EXCEPT !.parent = IndexOf(kept, RootOf(nd, kept[i]), 1)]>>
         \o Renumbered(nd, kept, i + 1)

RECURSIVE Renamed(_, _, _)
Renamed(kept, xs, i) ==
    IF i > Len(xs) THEN <<>>
    ELSE <<IF xs[i] = Null THEN Null ELSE IndexOf(kept, xs[i], 1)>>
         \o Renamed(kept, xs, i + 1)

\* Components nothing refers to become NoComponent.
RECURSIVE Swept(_, _, _)
Swept(cs, live, c) ==
    IF c > Len(cs) THEN <<>>
    ELSE <<IF c \in live THEN cs[c] ELSE NoComponent>> \o Swept(cs, live, c + 1)

RECURSIVE RenamedSlots(_, _, _)
RenamedSlots(cs, kept, c) ==
    IF c > Len(cs) THEN <<>>
    ELSE <<[cs[c] EXCEPT !.nodes = Renamed(kept, cs[c].nodes, 1)]>>
         \o RenamedSlots(cs, kept, c + 1)

Compacted(E, kept) ==
    [E EXCEPT !.node = Renumbered(E.node, kept, 1),
              !.nodes = Renamed(kept, E.nodes, 1),
              !.comp = RenamedSlots(E.comp, kept, 1)]

Compact(E) == Compacted(E, KeptNodes(E, 1, <<>>))

Collect(E, wires, refs) ==
    Compact([E EXCEPT !.comp =
                Swept(E.comp,
                      SeqSet(E.components) \cup WireComps(wires) \cup refs, 1)])

-----------------------------------------------------------------------------
(* UI state and hit tests (part_000).  Positions are not modelled: a       *)
(* pointer event carries the object the hit test finds under it.           *)

MaxDrops == 2
MaxComps == 3
MaxWires == 2
StaleComps == 3

\* Kinds of the palette that the explorations drop.
DropKinds == {"resistor"}
GroundKinds == {"battery", "resistor"}

NoTerminal == [component |-> Null, index |-> 0]

Engine ==
    [components |-> components, nodes |-> nodes, compCounter |-> compCounter,
     comp |-> comp, node |-> node, log |-> solveLog]

\* getTerminalAt: a joint's two terminals coincide and index 0 is tested
\* first; terminal 2 exists for an spdt only.
TerminalsAt(c) ==
    IF comp[c].type = "joint" THEN {0}
    ELSE IF comp[c].type = "spdt" THEN {0, 1, 2}
    ELSE {0, 1}

\* getComponentAt is reached only when no terminal is hit: every point of a
\* joint's body (radius 10) is within its terminal's radius (15).
BodyAt(c) == comp[c].type # "joint"

\* The end points getWireAt measures against: terminal 0 or else terminal 1;
\* both terminals of a joint are its position.
WireEnd(c, t) == <<c, IF t = 0 \/ comp[c].type = "joint" THEN 0 ELSE 1>>

WireSegment(w) ==
    {WireEnd(w.startComp, w.startTerm), WireEnd(w.endComp, w.endTerm)}

\* getWireAt returns the first wire within 8 px.  A wire between two
\* terminals of one component lies inside that component's body and
\* terminals, which are tested before wires; of two wires on the same
\* segment only the first is ever returned.
WireAt(i) ==
    /\ i \in DOMAIN visualWires
    /\ visualWires[i].startComp # visualWires[i].endComp
    /\ \A j \in 1..(i - 1) :
          WireSegment(visualWires[j]) # WireSegment(visualWires[i])

RemoveAt(seq, i) == SubSeq(seq, 1, i - 1) \o SubSeq(seq, i + 1, Len(seq))

\* The state a handler leaves behind.
Store(G, wires, sel, pan, drawing, wst, op) ==
    /\ components' = G.components
    /\ nodes' = G.nodes
    /\ compCounter' = G.compCounter
    /\ comp' = G.comp
    /\ node' = G.node
    /\ solveLog' = G.log
    /\ visualWires' = wires
    /\ selectedComponent' = sel
    /\ panel' = pan
    /\ isDrawingWire' = drawing
    /\ wireStartTerminal' = wst
    /\ lastOp' = op

Commit(E, wires, sel, pan, drawing, wst, op) ==
    Store(Collect(E, wires, {sel, pan, wst.component} \ {Null}), wires, sel,
          pan, drawing, wst, op)

\* removeOrphanedJoints
removeOrphanedJoints(E, wires) ==
    [E EXCEPT !.components =
        SelectSeq(E.components,
                  LAMBDA c : E.comp[c].type = "joint" => c \in WireComps(wires))]

removeComponent(E, c) ==
    [E EXCEPT !.components = SelectSeq(E.components, LAMBDA d : d # c)]

WithoutComponent(wires, c) ==
    SelectSeq(wires, LAMBDA w : w.startComp # c /\ w.endComp # c)

-----------------------------------------------------------------------------
(* Event handlers (part_000)                                               *)

\* The component is added and the circuit is not rebuilt.
DropWithoutRebuild(type, cap) ==
    /\ compCounter < cap
    /\ Commit(addComponent(Engine, type), visualWires, selectedComponent,
              Null, isDrawingWire, wireStartTerminal, "event")

\* drop / touchend over the canvas -> handleDrop
DropOf(type, cap) ==
    /\ compCounter < cap
    /\ Commit(rebuildCircuit(addComponent(Engine, type), visualWires),
              visualWires, selectedComponent, Null, isDrawingWire,
              wireStartTerminal, "event")

\* handlePointerDown, terminal hit: a wire is started.
PointerDownTerminal ==
    \E c \in SeqSet(components) : \E i \in TerminalsAt(c) :
        Commit(Engine, visualWires, selectedComponent, panel, TRUE,
               [component |-> c, index |-> i], "event")

\* The component clicks of handlePointerDown: a switch toggles when it is
\* the selection or nothing is selected, a pushbutton closes, an spdt flips;
\* each of the three is followed by engine.solve().
\* A switch toggles whatever the selection is.
TogglesAlways(k, c, sel) == k.type \in {"switch", "pushbutton", "spdt"}

Toggles(k, c, sel) ==
    \/ k.type = "switch" /\ (sel = c \/ sel = Null)
    \/ k.type = "pushbutton"
    \/ k.type = "spdt"

Clicked(k) ==
    IF k.type = "switch" THEN [k EXCEPT !.isOpen = ~k.isOpen]
    ELSE IF k.type = "pushbutton"
         THEN [k EXCEPT !.isOpen = FALSE, !.resistance = ClosedR]
    ELSE [k EXCEPT !.spdtState = IF k.spdtState = 0 THEN 1 ELSE 0]

\* The click changes the component and solve() is not called.
ClickUnsolved(E, c, sel) ==
    IF Toggles(E.comp[c], c, sel)
    THEN [E EXCEPT !.comp[c] = Clicked(E.comp[c])]
    ELSE E

Click(E, c, sel) ==
    IF Toggles(E.comp[c], c, sel)
    THEN solve([E EXCEPT !.comp[c] = Clicked(E.comp[c])])
    ELSE E

\* handlePointerDown, component hit.
PointerDownComponent ==
    \E c \in SeqSet(components) :
        /\ BodyAt(c)
        /\ Commit(Click(Engine, c, selectedComponent), visualWires, c, c,
                  isDrawingWire, wireStartTerminal, "event")

\* handlePointerDown, wire hit: the wire is split by a new joint.
SplitOf(cap, wcap) ==
    \E i \in DOMAIN visualWires :
        /\ WireAt(i)
        /\ compCounter < cap
        /\ Len(visualWires) < wcap
        /\ LET E1 == addComponent(Engine, "joint")
               joint == E1.compCounter
               oldW == visualWires[i]
               wires == RemoveAt(visualWires, i)
                        \o <<[startComp |-> oldW.startComp,
                              startTerm |-> oldW.startTerm,
                              endComp |-> joint, endTerm |-> 0],
                             [startComp |-> joint, startTerm |-> 1,
                              endComp |-> oldW.endComp,
                              endTerm |-> oldW.endTerm]>>
           IN Commit(rebuildCircuit(E1, wires), wires, joint, panel,
                     isDrawingWire, wireStartTerminal, "event")

\* handlePointerDown, nothing hit.
PointerDownEmpty ==
    Commit(Engine, visualWires, Null, Null, isDrawingWire, wireStartTerminal,
           "event")

\* handleDoubleClick on a wire.
HandleDoubleClick ==
    \E i \in DOMAIN visualWires :
        /\ WireAt(i)
        /\ LET wires == RemoveAt(visualWires, i)
           IN Commit(rebuildCircuit(removeOrphanedJoints(Engine, wires), wires),
                     wires, selectedComponent, panel, isDrawingWire,
                     wireStartTerminal, "event")

\* No pushbutton is released.
ReleaseNone(E, i) == E

\* Pushbutton release at the top of handlePointerUp.
RECURSIVE ReleaseFrom(_, _)
ReleaseFrom(E, i) ==
    IF i > Len(E.components) THEN E
    ELSE LET c == E.components[i]
         IN ReleaseFrom(
                IF E.comp[c].type = "pushbutton" /\ ~E.comp[c].isOpen
                THEN [E EXCEPT !.comp[c].isOpen = TRUE,
                               !.comp[c].resistance = OpenR]
                ELSE E,
                i + 1)

NeedsSolve(E) ==
    \E c \in SeqSet(E.components) :
        E.comp[c].type = "pushbutton" /\ ~E.comp[c].isOpen

\* handlePointerUp; target is the terminal under the pointer or NoTerminal.
PointerUpOf(target, wcap) ==
    LET E1 == ReleaseFrom(Engine, 1)
        addsWire == /\ isDrawingWire
                    /\ wireStartTerminal # NoTerminal
                    /\ target # NoTerminal
                    /\ target # wireStartTerminal
        wires == Append(visualWires,
                        [startComp |-> wireStartTerminal.component,
                         startTerm |-> wireStartTerminal.index,
                         endComp |-> target.component,
                         endTerm |-> target.index])
    IN IF addsWire
       THEN /\ Len(visualWires) < wcap
            /\ Commit(rebuildCircuit(E1, wires), wires, selectedComponent,
                      panel, FALSE, NoTerminal, "event")
       ELSE Commit(IF NeedsSolve(Engine) THEN solve(E1) ELSE E1, visualWires,
                   selectedComponent, panel, FALSE, NoTerminal, "event")

TerminalTargets ==
    {[component |-> c, index |-> i] :
        c \in SeqSet(components), i \in {0, 1, 2}} \cap
    {t \in [component : SeqSet(components), index : {0, 1, 2}] :
        t.index \in TerminalsAt(t.component)}

\* btnDel.onclick of the properties panel (no button for a joint).
DeleteButton ==
    /\ panel # Null
    /\ comp[panel].type # "joint"
    /\ LET wires == WithoutComponent(visualWires, panel)
       IN Commit(rebuildCircuit(removeComponent(Engine, panel), wires), wires,
                 Null, Null, isDrawingWire, wireStartTerminal, "event")

\* window.deleteSelected (Delete / Backspace)
deleteSelected ==
    /\ selectedComponent # Null
    /\ LET wires == WithoutComponent(visualWires, selectedComponent)
           E1 == removeOrphanedJoints(
                     removeComponent(Engine, selectedComponent), wires)
       IN Commit(rebuildCircuit(E1, wires), wires, Null, Null, isDrawingWire,
                 wireStartTerminal, "event")

\* new CircuitEngine()
NewEngine ==
    [components |-> <<>>, nodes |-> <<>>, compCounter |-> 0, comp |-> <<>>,
     node |-> <<>>, log |-> <<>>]

\* resetSimulation.  The code leaves wireStartTerminal as it is; it is read
\* only while isDrawingWire is true and handlePointerDown sets both, so the
\* stale reference is dropped here.
resetSimulation ==
    Commit(solve(NewEngine), <<>>, Null, Null, FALSE, NoTerminal, "event")

\* inpV.onchange / inpR.onchange of the properties panel: the field exists
\* for a battery / a resistor; the value typed is a finite number.
VoltageInputs == {Num(9, 0), Num(5, 0)}
ResistanceInputs ==
    {Num(100, 0), Num(1000, 0), Num(2000, 0), Num(0, 0), Num(-5, 0)}

EditVoltage ==
    /\ panel # Null
    /\ comp[panel].type = "battery"
    /\ \E v \in VoltageInputs :
          /\ v # comp[panel].voltage
          /\ Commit(solve([Engine EXCEPT !.comp[panel].voltage = v]),
                    visualWires, selectedComponent, panel, isDrawingWire,
                    wireStartTerminal, "event")

EditResistance ==
    /\ panel # Null
    /\ comp[panel].type = "resistor"
    /\ \E r \in ResistanceInputs :
          /\ r # comp[panel].resistance
          /\ Commit(solve([Engine EXCEPT !.comp[panel].resistance = r]),
                    visualWires, selectedComponent, panel, isDrawingWire,
                    wireStartTerminal, "event")

\* engine.solve() and rebuildCircuit() called on their own.
Solve ==
    Commit(solve(Engine), visualWires, selectedComponent, panel,
           isDrawingWire, wireStartTerminal, "solve")

Rebuild ==
    Commit(rebuildCircuit(Engine, visualWires), visualWires,
           selectedComponent, panel, isDrawingWire, wireStartTerminal,
           IF lastOp \in {"rebuild", "rebuild again"}
           THEN "rebuild again" ELSE "rebuild")

-----------------------------------------------------------------------------
(* Spec: the UI from an empty canvas: resistors are dropped, wires are     *)
(* drawn, split by a joint and deleted, the selection is deleted, the      *)
(* simulation is reset.                                                    *)

Init ==
    /\ components = <<>>
    /\ nodes = <<>>
    /\ compCounter = 0
    /\ comp = <<>>
    /\ node = <<>>
    /\ visualWires = <<>>
    /\ selectedComponent = Null
    /\ panel = Null
    /\ isDrawingWire = FALSE
    /\ wireStartTerminal = NoTerminal
    /\ solveLog = <<>>
    /\ lastOp = "event"

HandleDrop == \E type \in DropKinds : DropOf(type, MaxDrops)

SplitWire == SplitOf(MaxComps, MaxWires)

PointerUp == \E target \in TerminalTargets \cup {NoTerminal} :
                 PointerUpOf(target, MaxWires)

Next ==
    \/ HandleDrop
    \/ PointerDownTerminal
    \/ SplitWire
    \/ HandleDoubleClick
    \/ PointerUp
    \/ deleteSelected
    \/ resetSimulation

Spec == Init /\ [][Next]_vars

-----------------------------------------------------------------------------
(* SpecGround: the UI from an empty canvas with batteries and resistors    *)
(* dropped, components clicked and deleted from the panel or the keyboard, *)
(* wires drawn and deleted (none is split).                                *)

DropSource == \E type \in GroundKinds : DropOf(type, MaxDrops)

NextGround ==
    \/ DropSource
    \/ PointerDownTerminal
    \/ PointerDownComponent
    \/ PointerDownEmpty
    \/ HandleDoubleClick
    \/ PointerUp
    \/ DeleteButton
    \/ deleteSelected
    \/ resetSimulation

SpecGround == Init /\ [][NextGround]_vars

-----------------------------------------------------------------------------
(* SpecStale: the canvas after these events of Spec: two resistors are     *)
(* dropped, the first is clicked, the pointer goes down on its terminal 0, *)
(* Delete is pressed, the pointer is released on terminal 0 of the second. *)
(* The wire list then holds a wire that starts at the removed resistor.    *)

StaleWire ==
    <<[startComp |-> 1, startTerm |-> 0, endComp |-> 2, endTerm |-> 0]>>

TwoResistors ==
    rebuildCircuit(addComponent(addComponent(NewEngine, "resistor"),
                                "resistor"), <<>>)

StaleCanvas ==
    Collect(rebuildCircuit(rebuildCircuit(removeComponent(TwoResistors, 1),
                                          <<>>), StaleWire),
            StaleWire, {})

InitStale ==
    /\ components = StaleCanvas.components
    /\ nodes = StaleCanvas.nodes
    /\ compCounter = StaleCanvas.compCounter
    /\ comp = StaleCanvas.comp
    /\ node = StaleCanvas.node
    /\ visualWires = StaleWire
    /\ selectedComponent = Null
    /\ panel = Null
    /\ isDrawingWire = FALSE
    /\ wireStartTerminal = NoTerminal
    /\ solveLog = StaleCanvas.log
    /\ lastOp = "event"

DropResistor == DropOf("resistor", StaleComps)

NextStale ==
    \/ DropResistor
    \/ PointerDownTerminal
    \/ PointerDownComponent
    \/ PointerUp
    \/ deleteSelected

SpecStale == InitStale /\ [][NextStale]_vars

-----------------------------------------------------------------------------
(* SpecSolve: a battery, a resistor and an LED wired in a loop; the        *)
(* properties panel edits them, components are deleted, and solve() and    *)
(* rebuildCircuit() are called on their own.                               *)

LoopWires ==
    <<[startComp |-> 1, startTerm |-> 0, endComp |-> 2, endTerm |-> 0],
      [startComp |-> 2, startTerm |-> 1, endComp |-> 3, endTerm |-> 0],
      [startComp |-> 3, startTerm |-> 1, endComp |-> 1, endTerm |-> 1]>>

LoopCanvas ==
    Collect(rebuildCircuit(
                addComponent(addComponent(addComponent(NewEngine, "battery"),
                                          "resistor"), "led"),
                LoopWires),
            LoopWires, {})

InitSolve ==
    /\ components = LoopCanvas.components
    /\ nodes = LoopCanvas.nodes
    /\ compCounter = LoopCanvas.compCounter
    /\ comp = LoopCanvas.comp
    /\ node = LoopCanvas.node
    /\ visualWires = LoopWires
    /\ selectedComponent = Null
    /\ panel = Null
    /\ isDrawingWire = FALSE
    /\ wireStartTerminal = NoTerminal
    /\ solveLog = LoopCanvas.log
    /\ lastOp = "event"

NextSolve ==
    \/ PointerDownComponent
    \/ EditVoltage
    \/ EditResistance
    \/ DeleteButton
    \/ Solve
    \/ Rebuild

SpecSolve == InitSolve /\ [][NextSolve]_vars

-----------------------------------------------------------------------------
(* SpecParts: components of every kind of the palette are added, by        *)
(* engine.addComponent alone and by a drop on the canvas; they are         *)
(* clicked, the pointer is released, and rebuildCircuit() and solve() are  *)
(* called on their own.  No wire is drawn.                                 *)

MaxParts == 2

AllKinds ==
    {"battery", "bulb", "switch", "resistor", "voltmeter", "ammeter",
     "joint", "led", "pushbutton", "buzzer", "ldr", "potentiometer", "spdt"}

\* engine.addComponent(type, x, y) called on its own.
AddComponent ==
    \E type \in AllKinds :
        /\ compCounter < MaxParts
        /\ Commit(addComponent(Engine, type), visualWires, selectedComponent,
                  panel, isDrawingWire, wireStartTerminal, "add")

DropPart == \E type \in AllKinds : DropOf(type, MaxParts)

NextParts ==
    \/ AddComponent
    \/ DropPart
    \/ PointerDownComponent
    \/ PointerUp
    \/ Solve
    \/ Rebuild

SpecParts == Init /\ [][NextParts]_vars

-----------------------------------------------------------------------------
(* SpecSwitch: a battery, a switch and a pushbutton wired in a loop, and   *)
(* an spdt beside them; components are clicked, terminals are pressed, the *)
(* empty canvas is clicked and the pointer is released.                    *)

SwitchCanvas ==
    Collect(rebuildCircuit(
                addComponent(
                    addComponent(addComponent(addComponent(NewEngine,
                                                           "battery"),
                                              "switch"), "pushbutton"),
                    "spdt"),
                LoopWires),
            LoopWires, {})

InitSwitch ==
    /\ components = SwitchCanvas.components
    /\ nodes = SwitchCanvas.nodes
    /\ compCounter = SwitchCanvas.compCounter
    /\ comp = SwitchCanvas.comp
    /\ node = SwitchCanvas.node
    /\ visualWires = LoopWires
    /\ selectedComponent = Null
    /\ panel = Null
    /\ isDrawingWire = FALSE
    /\ wireStartTerminal = NoTerminal
    /\ solveLog = SwitchCanvas.log
    /\ lastOp = "event"

NextSwitch ==
    \/ PointerDownTerminal
    \/ PointerDownComponent
    \/ PointerDownEmpty
    \/ PointerUp

SpecSwitch == InitSwitch /\ [][NextSwitch]_vars

-----------------------------------------------------------------------------
(* SpecEvents: the handlers that change a solver input or remove a part of *)
(* the circuit, from the empty canvas, from the LED loop and from the      *)
(* switch loop: batteries and resistors are dropped, components are        *)
(* clicked and released, voltages and resistances are edited, wires and    *)
(* components are deleted.  No wire is drawn or split here (Spec and       *)
(* SpecGround do that).                                                    *)

NextEvents ==
    \/ DropSource
    \/ PointerDownComponent
    \/ PointerUp
    \/ HandleDoubleClick
    \/ DeleteButton
    \/ deleteSelected
    \/ EditVoltage
    \/ EditResistance

SpecEvents == (Init \/ InitSolve \/ InitSwitch) /\ [][NextEvents]_vars

-----------------------------------------------------------------------------
(* Properties                                                              *)

\* The terminal slots <<component, index>> of the components in the list.
Slots ==
    UNION {{<<c, i>> : i \in 0..(Len(comp[c].nodes) - 1)} :
              c \in SeqSet(components)}

NodeAt(s) == comp[s[1]].nodes[s[2] + 1]

WireEnds(w) == {<<w.startComp, w.startTerm>>, <<w.endComp, w.endTerm>>}

\* A valid edge names two terminal slots of components in the list.
ValidWire(w) == WireEnds(w) \subseteq Slots

ValidEdges == {WireEnds(visualWires[j]) : j \in DOMAIN visualWires}
                  \cap SUBSET Slots

\* The slots linked to a slot of S by a chain of edges.
RECURSIVE Reach(_, _)
Grown(S, S2, edges) == IF S2 = S THEN S ELSE Reach(S2, edges)

Reach(S, edges) == Grown(S, S \cup UNION {e \in edges : e \cap S # {}}, edges)

\* The partition of the slots by the node they reference.
PartitionOf(cs, slots) ==
    {{t \in slots : cs[t[1]].nodes[t[2] + 1] = cs[s[1]].nodes[s[2] + 1]} :
        s \in slots}

\* C1: after rebuildCircuit two terminal slots of listed components
\* reference the same node exactly when a chain of valid wires links them;
\* a slot no wire touches has a node of its own.
C1_SameNodeIffLinked ==
    \A s \in Slots :
        {t \in Slots : NodeAt(t) = NodeAt(s)} = Reach({s}, ValidEdges)

\* C4: a wire that names a component outside the list (or a terminal index
\* out of range) merges nothing: the partition of the slots is the one the
\* rebuild produces from the valid wires alone.
C4_InvalidWireSkipped ==
    PartitionOf(comp, Slots) =
        PartitionOf(PointToRoots(ApplyWires(CreateNodes(Engine),
                        SelectSeq(visualWires, ValidWire))).comp,
                    Slots)

\* C2: after every rebuild each terminal slot of a listed component holds a
\* union-find root: the node's parent is the node itself.
C2_SlotsAreRoots ==
    \A s \in Slots : NodeAt(s) # Null /\ node[NodeAt(s)].parent = NodeAt(s)

\* Two components share a node through a wire, and the shared node is a root.
C2_MergedSlotsAreRoots ==
    /\ visualWires # <<>>
    /\ \E s \in Slots : \E t \in Slots :
          /\ s[1] # t[1]
          /\ NodeAt(s) = NodeAt(t)
          /\ node[NodeAt(s)].parent = NodeAt(s)

\* C3: engine.nodes holds no node twice and is exactly the set of nodes the
\* terminal slots of the listed components reference.
C3_NodeListExact ==
    /\ \A i \in DOMAIN nodes : \A j \in DOMAIN nodes :
          nodes[i] = nodes[j] => i = j
    /\ SeqSet(nodes) = {NodeAt(s) : s \in Slots}

\* A component has been removed, a wire is left and merges two slots.
C3_AfterRemovalAndWire ==
    /\ compCounter > Len(components)
    /\ components # <<>>
    /\ visualWires # <<>>
    /\ Len(nodes) < Cardinality(Slots)
    /\ SeqSet(nodes) = {NodeAt(s) : s \in Slots}

\* Positions of the batteries in the component list.
BatteryPositions ==
    {i \in DOMAIN components : comp[components[i]].type = "battery"}

GroundNodes == {n \in SeqSet(nodes) : node[n].isGND}

NegativeOf(i) == comp[components[i]].nodes[2]

\* C5: with a battery in the list the node of terminal 1 of the first
\* battery is ground and no other node of engine.nodes is; without a battery
\* no node is ground.
C5_GroundIsFirstBatteryNegative ==
    IF BatteryPositions = {} THEN GroundNodes = {}
    ELSE \E i \in BatteryPositions :
            /\ \A j \in BatteryPositions : i <= j
            /\ GroundNodes = {NegativeOf(i)}

\* Two batteries are listed; the negative terminal of the second is another
\* node than that of the first and is not ground.
C5_SecondBatteryNotGround ==
    \E i \in BatteryPositions : \E j \in BatteryPositions :
        /\ i < j
        /\ NegativeOf(i) # NegativeOf(j)
        /\ node[NegativeOf(i)].isGND
        /\ ~node[NegativeOf(j)].isGND

\* C6: whenever rebuildCircuit or solve has returned, every node marked as
\* ground has voltage exactly 0.
C6_GroundAtZero ==
    \A n \in DOMAIN node : node[n].isGND => node[n].voltage = Zero

\* A solve has run: the ground is at 0 and another node of the list is not.
C6_GroundZeroOthersNot ==
    /\ lastOp = "solve"
    /\ \E n \in SeqSet(nodes) : node[n].isGND /\ node[n].voltage = Zero
    /\ \E n \in SeqSet(nodes) : ~node[n].isGND /\ node[n].voltage # Zero

\* The largest absolute change of a non-ground voltage between pass k - 1
\* and pass k of the last solve.
RECURSIVE MaxDelta(_, _, _)
MaxDelta(v, w, i) ==
    IF i > Len(v) THEN Zero
    ELSE LET d == Abs(Sub(v[i], w[i]))
             rest == MaxDelta(v, w, i + 1)
         IN IF Gt(d, rest) THEN d ELSE rest

SmallChange(k) ==
    Lt(MaxDelta(solveLog[k - 1].v, solveLog[k].v, 1), Num(1, -3))

Unknowns ==
    Cardinality({i \in DOMAIN nodes : ~node[nodes[i]].isGND})
        + Cardinality(BatteryPositions)

\* C7: a solve runs at most 10 passes and at least 2 when there is an
\* unknown; after pass k >= 2 it stops exactly when the largest change of a
\* non-ground voltage between passes k - 1 and k is below 1e-3 or k = 10; the
\* voltages the last pass wrote are the ones left in the nodes.
C7_PassesBounded ==
    /\ Len(solveLog) <= 10
    /\ Unknowns > 0 => Len(solveLog) >= 2
    /\ \A k \in 2..Len(solveLog) :
          (k = Len(solveLog)) <=> (SmallChange(k) \/ k = 10)
    /\ solveLog # <<>> =>
          solveLog[Len(solveLog)].v = Voltages(Engine, activeNodesOf(Engine))

\* The ten passes are used up without the change getting small.
C7_TenPasses ==
    /\ Len(solveLog) = 10
    /\ ~SmallChange(10)
    /\ solveLog[10].v = Voltages(Engine, activeNodesOf(Engine))

EngineState == <<components, nodes, compCounter, comp, node>>

\* C8: every pass of a solve has #non-ground nodes + #batteries unknowns;
\* a solve of a system with no unknown runs no pass and changes nothing of
\* the engine.
C8_UnknownsCounted ==
    /\ [](\A k \in DOMAIN solveLog : solveLog[k].size = Unknowns)
    /\ [][(lastOp' = "solve" /\ Unknowns = 0) =>
             (EngineState' = EngineState /\ solveLog' = <<>>)]_vars

\* solve() has been called on an engine with nothing to solve.
C8_SolvedNothing ==
    /\ lastOp = "solve"
    /\ Unknowns = 0
    /\ solveLog = <<>>

\* What a rebuild produces: the voltage and ground mark of every node of
\* engine.nodes and the partition of the terminal slots.
RebuildOutput ==
    <<[i \in DOMAIN nodes |-> node[nodes[i]].voltage],
      [i \in DOMAIN nodes |-> node[nodes[i]].isGND],
      PartitionOf(comp, Slots),
      {s \in Slots : node[NodeAt(s)].isGND}>>

\* C9: a rebuild that follows a rebuild, with the components, their
\* parameters and the wires unchanged, produces the same node voltages, the
\* same partition of the slots and the same ground.
C9_RebuildTwiceSame ==
    [][lastOp' = "rebuild again" => RebuildOutput' = RebuildOutput]_vars

\* A second rebuild has run on a circuit with a non-zero voltage.
C9_RebuiltAgain ==
    /\ lastOp = "rebuild again"
    /\ \E n \in SeqSet(nodes) : node[n].voltage # Zero

\* C10: between two handlers no listed component holds a terminal reference
\* that is null, not a root, or missing from engine.nodes.  A handler is one
\* step: the render loop and the other handlers run between steps only.
C10_NoPartialRebuild ==
    \A c \in SeqSet(components) : \A i \in DOMAIN comp[c].nodes :
        /\ comp[c].nodes[i] # Null
        /\ node[comp[c].nodes[i]].parent = comp[c].nodes[i]
        /\ comp[c].nodes[i] \in SeqSet(nodes)

\* A wire has been split: the joint is listed and wired on both sides.
C10_AfterSplit ==
    /\ \E c \in SeqSet(components) :
          /\ comp[c].type = "joint"
          /\ comp[c].nodes[1] \in SeqSet(nodes)
          /\ comp[c].nodes[2] \in SeqSet(nodes)
    /\ Len(visualWires) = 2

\* The voltage across a listed component, terminal 0 minus terminal 1.
DropAcross(c) ==
    Sub(node[comp[c].nodes[1]].voltage, node[comp[c].nodes[2]].voltage)

FloorClamped(R) == IF Lt(R, Num(1, -6)) THEN Num(1, -6) ELSE R

\* C11: no pass stamps a resistance below 1e-6, and the current a solve
\* leaves in a resistive component is its voltage drop divided by its
\* resistance floor-clamped to 1e-6, a finite number, whatever value
\* (0 and negative included) a property edit gave the resistance.
C11_ClampedInStampAndCurrent ==
    /\ \A k \in DOMAIN solveLog : \A i \in DOMAIN solveLog[k].R :
          \A j \in DOMAIN solveLog[k].R[i] :
              ~Lt(solveLog[k].R[i][j], Num(1, -6))
    /\ solveLog # <<>> =>
          \A c \in SeqSet(components) :
              comp[c].type \notin {"battery", "spdt", "led"} =>
                  /\ comp[c].current.k = "fin"
                  /\ comp[c].current =
                         Div(DropAcross(c),
                             FloorClamped(SwitchResistance(comp[c])))

\* A node of engine.nodes that is not ground and that no battery touches,
\* every component on it having all its terminals on it: nothing but the
\* leakage is left on its diagonal.
Isolated(n) ==
    /\ ~node[n].isGND
    /\ \A c \in SeqSet(components) :
          n \in SeqSet(comp[c].nodes) =>
              comp[c].type # "battery" /\ SeqSet(comp[c].nodes) = {n}

\* The position of node n among the non-ground nodes of engine.nodes.
ActiveIndex(n) ==
    Cardinality({i \in DOMAIN nodes :
                    ~node[nodes[i]].isGND /\ i <= IndexOf(nodes, n, 1)})

\* C12: after every solve a fully disconnected non-ground node has voltage
\* 0, a finite number: in every pass the diagonal entry of its row is below
\* the 1e-10 threshold and its unknown is left at 0.
C12_IsolatedNodeAtZero ==
    \A n \in SeqSet(nodes) :
        Isolated(n) =>
            /\ node[n].voltage = Zero
            /\ \A k \in DOMAIN solveLog :
                  /\ Lt(Abs(solveLog[k].A[ActiveIndex(n)][ActiveIndex(n)]),
                        Num(1, -10))
                  /\ solveLog[k].x[ActiveIndex(n)] = Zero

\* A solve has left a disconnected node at 0 next to a node that a battery
\* holds at another voltage.
C12_IsolatedBesideSource ==
    /\ solveLog # <<>>
    /\ \E n \in SeqSet(nodes) : Isolated(n) /\ node[n].voltage = Zero
    /\ \E n \in SeqSet(nodes) : node[n].voltage # Zero

\* The identity and the inputs of a component.
InputsOf(k) ==
    [type |-> k.type, resistance |-> k.resistance, voltage |-> k.voltage,
     isOpen |-> k.isOpen, spdtState |-> k.spdtState]

\* C13: rebuildCircuit and solve keep the component list (the same objects
\* in the same order) and change no component's kind, resistance, source
\* voltage, isOpen or spdtState; this holds of the calls made on their own
\* and of the calls inside a handler, where the only input that changes is
\* the voltage or resistance the properties panel assigns to its battery
\* or resistor (never the resistance of an LED).
C13_InputsUntouched ==
    [][/\ lastOp' \in {"solve", "rebuild", "rebuild again"} =>
             /\ components' = components
             /\ \A c \in SeqSet(components) :
                   InputsOf(comp'[c]) = InputsOf(comp[c])
       /\ \A c \in SeqSet(components') :
             \/ InputsOf(comp'[c]) = InputsOf(comp[c])
             \/ /\ c = panel
                /\ comp[c].type \in {"battery", "resistor"}
                /\ [InputsOf(comp'[c]) EXCEPT !.voltage = Zero,
                                              !.resistance = Zero]
                       = [InputsOf(comp[c]) EXCEPT !.voltage = Zero,
                                                   !.resistance = Zero]]_vars

\* A solve has stamped the LED with another resistance than the one the
\* component stores, and the stored one is still the default.
C13_LedResistanceKept ==
    /\ lastOp = "solve"
    /\ solveLog # <<>>
    /\ \E i \in DOMAIN components :
          /\ comp[components[i]].type = "led"
          /\ comp[components[i]].resistance = Num(10, 0)
          /\ solveLog[Len(solveLog)].R[i] # <<Num(10, 0)>>

\* C14: from addComponent's return on, every listed component has as many
\* terminal slots as its kind requires: 3 for an spdt, 2 otherwise.
C14_SlotsMatchKind ==
    \A c \in SeqSet(components) :
        Len(comp[c].nodes) = IF comp[c].type = "spdt" THEN 3 ELSE 2

\* The resistance a new component of each kind starts with.
DefaultResistance ==
    [battery |-> Num(1, -1), bulb |-> Num(50, 0), switch |-> Num(1, -3),
     resistor |-> Num(100, 0), voltmeter |-> Num(1, 9),
     ammeter |-> Num(1, -3), led |-> Num(10, 0), pushbutton |-> Num(1, 9),
     buzzer |-> Num(100, 0), ldr |-> Num(250, 0),
     potentiometer |-> Num(250, 0), joint |-> Num(1, -3)]

\* C15: addComponent appends exactly one component to the list; the new
\* component has the resistance of its kind, voltage 9 when it is a
\* battery, and isOpen true exactly when it is a switch or a pushbutton.
C15_AddComponentDefaults ==
    [][lastOp' = "add" =>
          /\ components' = Append(components, compCounter')
          /\ comp'[compCounter'].type \in DOMAIN DefaultResistance =>
                comp'[compCounter'].resistance
                    = DefaultResistance[comp'[compCounter'].type]
          /\ comp'[compCounter'].type = "battery" =>
                comp'[compCounter'].voltage = Num(9, 0)
          /\ comp'[compCounter'].isOpen
                <=> comp'[compCounter'].type \in {"switch", "pushbutton"}]_vars

\* addComponent has returned a pushbutton, the second component of the list.
C15_AddedPushbutton ==
    /\ lastOp = "add"
    /\ Len(components) = 2
    /\ comp[components[2]].type = "pushbutton"
    /\ comp[components[2]].isOpen
    /\ comp[components[2]].resistance = Num(1, 9)

\* The voltage pass k of the last solve left in node n.
LoggedVoltage(k, n) ==
    IF n = Null \/ k = 0 THEN Zero
    ELSE IF node[n].isGND THEN Zero
    ELSE solveLog[k].v[ActiveIndex(n)]

\* Terminal 0 minus terminal 1 of the component at position i after pass k.
LoggedDrop(k, i) ==
    Sub(LoggedVoltage(k, comp[components[i]].nodes[1]),
        LoggedVoltage(k, comp[components[i]].nodes[2]))

\* C16: the resistance a pass stamps for an LED is 1e7 on the first pass;
\* on a later pass it is 90 when the previous pass left terminal 0 more than
\* 0.5 above terminal 1, and 1e7 otherwise.
C16_LedStampedByModel ==
    \A k \in DOMAIN solveLog : \A i \in DOMAIN components :
        comp[components[i]].type = "led" =>
            solveLog[k].R[i] =
                <<IF k > 1 /\ Gt(LoggedDrop(k - 1, i), Num(5, -1))
                  THEN Num(90, 0) ELSE Num(1, 7)>>

\* C17: in every pass the current written to a component that is neither
\* a battery nor an spdt is the voltage of terminal 0 minus that of terminal
\* 1, as the pass wrote them, divided by the resistance the pass stamped for
\* the component.
C17_CurrentFromStampedR ==
    \A k \in DOMAIN solveLog : \A i \in DOMAIN components :
        comp[components[i]].type \notin {"battery", "spdt"} =>
            solveLog[k].I[i] = Div(LoggedDrop(k, i), solveLog[k].R[i][1])

\* The non-ground nodes of engine.nodes, in order: the columns 1..N.
ActiveSeq == SelectSeq(nodes, LAMBDA n : ~node[n].isGND)

\* The row and column of the branch current of the battery at position i.
BatteryRow(i) ==
    Len(ActiveSeq) + Cardinality({j \in BatteryPositions : j < i}) + 1

\* +1 for terminal 0 and -1 for terminal 1 in the column of node n.
Coefficient(i, n) ==
    Num((IF comp[components[i]].nodes[1] = n THEN 1 ELSE 0)
            - (IF comp[components[i]].nodes[2] = n THEN 1 ELSE 0), 0)

\* C18: in the system every pass assembles, the row of a battery holds +1
\* in the column of terminal 0 and -1 in the column of terminal 1 (nothing
\* for a ground terminal, the sum for a shared node), its right-hand side is
\* the battery voltage, and its column is the transpose of the row.
C18_BatteryRowEncodesSource ==
    \A k \in DOMAIN solveLog : \A i \in BatteryPositions :
        /\ solveLog[k].Z[BatteryRow(i)] = comp[components[i]].voltage
        /\ \A j \in DOMAIN ActiveSeq :
              /\ solveLog[k].A[BatteryRow(i)][j] = Coefficient(i, ActiveSeq[j])
              /\ solveLog[k].A[j][BatteryRow(i)] = Coefficient(i, ActiveSeq[j])

\* C19: in every pass the current written to a battery is the solved value
\* of the unknown of that battery's own row, the row that was stamped with
\* its voltage: non-ground node count + batteries before it in the list.
C19_BatteryReadsOwnUnknown ==
    \A k \in DOMAIN solveLog : \A i \in BatteryPositions :
        /\ solveLog[k].I[i] = solveLog[k].x[BatteryRow(i)]
        /\ solveLog[k].Z[BatteryRow(i)] = comp[components[i]].voltage

\* Two batteries whose unknowns were solved to different values, each
\* reading its own.
C19_TwoBatteriesTwoCurrents ==
    /\ solveLog # <<>>
    /\ \E i \in BatteryPositions : \E j \in BatteryPositions :
          /\ i < j
          /\ comp[components[i]].current # comp[components[j]].current
          /\ comp[components[j]].current
                 = solveLog[Len(solveLog)].x[BatteryRow(j)]

\* C20: every listed spdt has spdtState 0 or 1, and every pass of solve()
\* stamps exactly one of its two paths as closed (0.001): the path to
\* output 1 in state 0, the path to output 2 in state 1, the other path
\* being stamped 1e9.
C20_SpdtOnePathClosed ==
    \A i \in DOMAIN components :
        comp[components[i]].type = "spdt" =>
            /\ comp[components[i]].spdtState \in {0, 1}
            /\ \A k \in DOMAIN solveLog :
                  i \in DOMAIN solveLog[k].R =>
                      solveLog[k].R[i] =
                          IF comp[components[i]].spdtState = 0
                          THEN <<Num(1, -3), Num(1, 9)>>
                          ELSE <<Num(1, 9), Num(1, -3)>>

\* The resistance of a switch or pushbutton by its isOpen alone.
ByIsOpen(k) == IF k.isOpen THEN Num(1, 9) ELSE Num(1, -3)

\* C21: in every pass a switch or pushbutton is stamped with 0.001 when
\* isOpen is false and with 1e9 when it is true, and its current is its
\* drop divided by that same value, whatever its stored resistance is.
C21_SwitchByIsOpen ==
    \A k \in DOMAIN solveLog : \A i \in DOMAIN components :
        comp[components[i]].type \in {"switch", "pushbutton"} =>
            /\ solveLog[k].R[i] = <<ByIsOpen(comp[components[i]])>>
            /\ solveLog[k].I[i] =
                   Div(LoggedDrop(k, i), ByIsOpen(comp[components[i]]))

\* An open switch whose stored resistance is still 0.001 takes the whole
\* battery voltage and carries 9e-9 A.
C21_OpenSwitchStoredClosed ==
    /\ solveLog # <<>>
    /\ \E i \in DOMAIN components :
          /\ comp[components[i]].type = "switch"
          /\ comp[components[i]].isOpen
          /\ comp[components[i]].resistance = Num(1, -3)
          /\ solveLog[Len(solveLog)].R[i] = <<Num(1, 9)>>
          /\ comp[components[i]].current = Num(9, -9)

\* The loop of SpecSolve with its 9 V battery and the resistor at 1000 ohm.
LedLoop1k ==
    /\ components = <<1, 2, 3>>
    /\ visualWires = LoopWires
    /\ comp[1].voltage = Num(9, 0)
    /\ comp[2].resistance = Num(1000, 0)

\* Equal up to the rounding of the last of four significant digits at the
\* size of the loop current (8.257e-3).
Near(a, b) == Lt(Abs(Sub(a, b)), Num(2, -6))

\* C22: with the LED (terminal 0 toward the battery's positive terminal) in
\* series with 1000 ohm across 9 V, the solve ends before the tenth pass, the
\* last two passes stamp the LED with 90, and the LED's current is the
\* resistor's current, 9/1090 A = 8.257e-3 A.
C22_LedLoopConverges ==
    LedLoop1k =>
        /\ Len(solveLog) >= 2
        /\ Len(solveLog) < 10
        /\ solveLog[Len(solveLog)].R[3] = <<Num(90, 0)>>
        /\ solveLog[Len(solveLog) - 1].R[3] = <<Num(90, 0)>>
        /\ Near(comp[3].current, comp[2].current)
        /\ Near(comp[3].current, Num(8257, -6))
        /\ Near(comp[2].current, Num(8257, -6))

\* The solve of that loop took four passes.
C22_FourPasses ==
    /\ LedLoop1k
    /\ Len(solveLog) = 4
    /\ Gt(DropAcross(3), Num(5, -1))
    /\ Gt(comp[3].current, Num(8, -3))

\* What solve() writes: the voltage of every listed node and the current
\* of every listed component.
SolveOutputs(E) ==
    <<[n \in SeqSet(E.nodes) |-> E.node[n].voltage],
      [c \in SeqSet(E.components) |-> E.comp[c].current]>>

C24_WiresNameListed ==
    \A i \in DOMAIN visualWires :
        /\ visualWires[i].startComp \in SeqSet(components)
        /\ visualWires[i].endComp \in SeqSet(components)

Pushbuttons == {c \in SeqSet(components) : comp[c].type = "pushbutton"}

PushbuttonOpen(c) == comp[c].isOpen /\ comp[c].resistance = Num(1, 9)

PushbuttonClosed(c) == ~comp[c].isOpen /\ comp[c].resistance = Num(1, -3)

Disturbed(E, v, i) ==
    [E EXCEPT !.node = [n \in DOMAIN E.node |->
                           [E.node[n] EXCEPT !.voltage = v]],
              !.comp = [c \in DOMAIN E.comp |->
                           [E.comp[c] EXCEPT !.current = i]]]

PriorValues == {Zero, Num(5, 0), Num(-3, 0)}

\* C26: a solve() called again with nothing changed leaves every node
\* voltage and every component current as they were, and the outputs of
\* solve() are the same whatever node voltages and currents it starts from.
C26_SolveIdempotent ==
    /\ [][lastOp' = "solve" =>
              SolveOutputs(Engine)' = SolveOutputs(Engine)]_vars
    /\ [](\A v \in PriorValues :
              SolveOutputs(solve(Disturbed(Engine, v, v)))
                  = SolveOutputs(Engine))

\* solve() was called again on the loop whose LED model does not settle:
\* the ten passes are used and the outputs are the same again.
C26_SolvedAgainUnsettled ==
    /\ lastOp = "solve"
    /\ Len(solveLog) = 10
    /\ \E c \in SeqSet(components) :
          comp[c].type = "led" /\ comp[c].current # Zero
    /\ \E n \in SeqSet(nodes) : node[n].voltage # Zero

\* C27: a pointer-down on the body of a component makes it the selection;
\* a switch toggles isOpen exactly when it was the selection already or
\* nothing was selected; a pushbutton is closed and an spdt flipped whatever
\* the selection was; no other component changes.  A pointer-down on a
\* terminal starts a wire and changes no input.  The outputs of every state
\* are those of a solve of that state.
C27_SwitchToggleBySelection ==
    /\ [][PointerDownComponent =>
              /\ selectedComponent' \in SeqSet(components)
              /\ \A c \in SeqSet(components) :
                    InputsOf(comp'[c]) =
                        IF c # selectedComponent' THEN InputsOf(comp[c])
                        ELSE IF comp[c].type = "switch"
                                 /\ selectedComponent \in {c, Null}
                        THEN [InputsOf(comp[c]) EXCEPT
                                  !.isOpen = ~comp[c].isOpen]
                        ELSE IF comp[c].type = "pushbutton"
                        THEN [InputsOf(comp[c]) EXCEPT
                                  !.isOpen = FALSE,
                                  !.resistance = Num(1, -3)]
                        ELSE IF comp[c].type = "spdt"
                        THEN [InputsOf(comp[c]) EXCEPT
                                  !.spdtState =
                                      IF comp[c].spdtState = 0 THEN 1 ELSE 0]
                        ELSE InputsOf(comp[c])]_vars
    /\ [][PointerDownTerminal =>
              /\ isDrawingWire'
              /\ wireStartTerminal' # NoTerminal
              /\ selectedComponent' = selectedComponent
              /\ \A c \in SeqSet(components) :
                    InputsOf(comp'[c]) = InputsOf(comp[c])]_vars
    /\ [](SolveOutputs(Engine) = SolveOutputs(solve(Engine)))

\* The switch has been clicked (it is the selection) and is open, the spdt
\* has been clicked twice (its state is 1) and a wire has been started on a
\* terminal.
C27_SelectedNotToggled ==
    \E c \in SeqSet(components) : \E d \in SeqSet(components) :
        /\ comp[c].type = "switch"
        /\ selectedComponent = c
        /\ comp[c].isOpen
        /\ comp[d].type = "spdt"
        /\ comp[d].spdtState = 1
        /\ isDrawingWire

=============================================================================
